---- MODULE Spec2Model ----
(***************************************************************************)
(* Model of the template tokenizer in src/src/lib.rs: the nom-based parser *)
(* `parse::parse_template`, `ParsedTemplate::new` and                      *)
(* `ParsedTemplate::instantiate`.                                          *)
(*                                                                         *)
(* A byte is a one-character string.  A Rust slice `&'a [u8]` into the     *)
(* template is a record [off, len]: the 0-based offset of its first byte   *)
(* in the template and its length.  The byte at offset o of the template s *)
(* is s[o + 1].                                                            *)
(***************************************************************************)
EXTENDS Integers, Sequences, FiniteSets, TLC

\* Longest template enumerated exhaustively over Alphabet.
MaxLen == 5

\* The bytes the six tokens are made of, and two ASCII whitespace bytes,
\* one of them the newline.
Alphabet == {"{", "}", "%", "#", " ", "\n"}

BoundedInputs == UNION {[1..n -> Alphabet] : n \in 0..MaxLen}

\* The templates of the unit tests of src/src/lib.rs.
TestInputs ==
    { <<"{", "{", " ", "h", "e", "l", "l", "o", " ", "}", "}">>,
      <<"{", "{", " ", "{", "{", " ", "}", "}">>,
      <<"{", "%", " ", "{", "{", " ", "%", "}">>,
      <<"{", "#", " ", "{", "{", " ", "#", "}">>,
      <<"{", "{", " ", "{", "%", " ", "}", "}">>,
      <<"{", "%", " ", "{", "%", " ", "%", "}">>,
      <<"{", "#", " ", "{", "%", " ", "#", "}">>,
      <<"{", "{", " ", "{", "#", " ", "}", "}">>,
      <<"{", "%", " ", "{", "#", " ", "%", "}">>,
      <<"{", "#", " ", "{", "#", " ", "#", "}">>,
      <<"{", "{", " ", "}", "}", " ", "}", "}">>,
      <<"{", "%", " ", "}", "}", " ", "%", "}">>,
      <<"{", "#", " ", "}", "}", " ", "#", "}">>,
      <<"{", "{", " ", "%", "}", " ", "}", "}">>,
      <<"{", "%", " ", "%", "}", " ", "%", "}">>,
      <<"{", "#", " ", "%", "}", " ", "#", "}">>,
      <<"{", "{", " ", "#", "}", " ", "}", "}">>,
      <<"{", "%", " ", "#", "}", " ", "%", "}">>,
      <<"{", "#", " ", "#", "}", " ", "#", "}">>,
      <<"{", "{", "\n", "\n", "}", "}", "\n", "\n", "f", "o", "o">>,
      <<"\n", "\n", "{", "{", "\n", "\n", "}", "}", "\n", "\n", "f", "o", "o">>,
      <<"\n", "\n", "b", "a", "r", "{", "{", "\n", " ", "b", "a", "r", " ", "\n",
        "}", "}", "\n", "\n", "f", "o", "o">>,
      <<"H", "e", "l", "l", "o", " ", "{", "{", " ", "w", "o", "r", "l", "d", " ",
        "}", "}">> }

Inputs == BoundedInputs \cup TestInputs

VARIABLES
    input,      \* the template bytes handed to ParsedTemplate::new
    pc,         \* "many0", "new", "instantiate" or "done"
    i,          \* many0's running input: a NumberedInput
    acc,        \* many0's accumulator: a sequence of NumberedBlock
    starts,     \* the offset of `i` at the iteration that pushed acc[n]
    result,     \* the value parse_template returned
    template,   \* the Option<ParsedTemplate> ParsedTemplate::new returned
    k,          \* position of instantiate's iterator in template.parsed
    out,        \* the bytes the sink has accepted
    ires        \* the value instantiate returned

vars == <<input, pc, i, acc, starts, result, template, k, out, ires>>

----------------------------------------------------------------------------
\* Slices and bytes

Slice(off, len) == [off |-> off, len |-> len]

Bytes(s, sl) == SubSeq(s, sl.off + 1, sl.off + sl.len)

Min(S) == CHOOSE x \in S : \A y \in S : x <= y

Max(S) == CHOOSE x \in S : \A y \in S : x >= y

\* u8::is_ascii_whitespace: space, tab, line feed, form feed, carriage return
is_ascii_whitespace(b) == b \in {" ", "\t", "\n", "\f", "\r"}

trim_ascii_start(s, sl) ==
    LET keep == {j \in 0..(sl.len - 1) : ~is_ascii_whitespace(s[sl.off + j + 1])}
    IN  IF keep = {} THEN Slice(sl.off + sl.len, 0)
        ELSE Slice(sl.off + Min(keep), sl.len - Min(keep))

trim_ascii_end(s, sl) ==
    LET keep == {j \in 0..(sl.len - 1) : ~is_ascii_whitespace(s[sl.off + j + 1])}
    IN  IF keep = {} THEN Slice(sl.off, 0)
        ELSE Slice(sl.off, Max(keep) + 1)

\* Variant of trim_ascii that forgets the trailing whitespace
trim_ascii_start_only(s, sl) == trim_ascii_start(s, sl)

trim_ascii(s, sl) == trim_ascii_end(s, trim_ascii_start(s, sl))

\* result.iter().filter(|&&x| x == b'\n').count()
CountNewlines(s, sl) ==
    Cardinality({j \in 0..(sl.len - 1) : s[sl.off + j + 1] = "\n"})

----------------------------------------------------------------------------
\* nom combinators.  An IResult is a record whose field `variant` is "Ok"
\* (with `rest` and `out`), or "Error" or "Failure" (with `input` and `code`).

Ok(rest, o) == [variant |-> "Ok", rest |-> rest, out |-> o]

Err(variant, inp, code) == [variant |-> variant, input |-> inp, code |-> code]

\* nom::bytes::complete::tag
tag(s, sep, sl) ==
    IF sl.len >= Len(sep) /\ \A j \in 1..Len(sep) : s[sl.off + j] = sep[j]
    THEN Ok(Slice(sl.off + Len(sep), sl.len - Len(sep)), Slice(sl.off, Len(sep)))
    ELSE Err("Error", sl, "Tag")

\* Variant of take_until that stops at the last occurrence
take_until_last(s, sep, sl) ==
    LET found == {p \in 0..(sl.len - Len(sep)) :
                     \A j \in 1..Len(sep) : s[sl.off + p + j] = sep[j]}
    IN  IF found = {} THEN Err("Error", sl, "TakeUntil")
        ELSE Ok(Slice(sl.off + Max(found), sl.len - Max(found)),
                Slice(sl.off, Max(found)))

\* nom::bytes::complete::take_until: everything before the first occurrence
take_until(s, sep, sl) ==
    LET found == {p \in 0..(sl.len - Len(sep)) :
                     \A j \in 1..Len(sep) : s[sl.off + p + j] = sep[j]}
    IN  IF found = {} THEN Err("Error", sl, "TakeUntil")
        ELSE Ok(Slice(sl.off + Min(found), sl.len - Min(found)),
                Slice(sl.off, Min(found)))

parse_special_with_separator(s, left_sep, right_sep, sl) ==
    LET l == tag(s, left_sep, sl)
    IN  IF l.variant # "Ok" THEN l
        ELSE LET m == take_until(s, right_sep, l.rest)
             IN  IF m.variant # "Ok" THEN m
                 ELSE LET r == tag(s, right_sep, m.rest)
                      IN  IF r.variant # "Ok" THEN r
                          ELSE Ok(r.rest, m.out)

\* Variant of any_separator without the alternative tag("}}")
any_separator_no_curly_close(s, sl) ==
    IF      tag(s, <<"{", "{">>, sl).variant = "Ok" THEN tag(s, <<"{", "{">>, sl)
    ELSE IF tag(s, <<"{", "%">>, sl).variant = "Ok" THEN tag(s, <<"{", "%">>, sl)
    ELSE IF tag(s, <<"{", "#">>, sl).variant = "Ok" THEN tag(s, <<"{", "#">>, sl)
    ELSE IF tag(s, <<"%", "}">>, sl).variant = "Ok" THEN tag(s, <<"%", "}">>, sl)
    ELSE tag(s, <<"#", "}">>, sl)

\* Variant of any_separator without the alternative tag("#}")
any_separator_no_hash_close(s, sl) ==
    IF      tag(s, <<"{", "{">>, sl).variant = "Ok" THEN tag(s, <<"{", "{">>, sl)
    ELSE IF tag(s, <<"{", "%">>, sl).variant = "Ok" THEN tag(s, <<"{", "%">>, sl)
    ELSE IF tag(s, <<"{", "#">>, sl).variant = "Ok" THEN tag(s, <<"{", "#">>, sl)
    ELSE IF tag(s, <<"}", "}">>, sl).variant = "Ok" THEN tag(s, <<"}", "}">>, sl)
    ELSE tag(s, <<"%", "}">>, sl)

any_separator(s, sl) ==
    IF      tag(s, <<"{", "{">>, sl).variant = "Ok" THEN tag(s, <<"{", "{">>, sl)
    ELSE IF tag(s, <<"{", "%">>, sl).variant = "Ok" THEN tag(s, <<"{", "%">>, sl)
    ELSE IF tag(s, <<"{", "#">>, sl).variant = "Ok" THEN tag(s, <<"{", "#">>, sl)
    ELSE IF tag(s, <<"}", "}">>, sl).variant = "Ok" THEN tag(s, <<"}", "}">>, sl)
    ELSE IF tag(s, <<"%", "}">>, sl).variant = "Ok" THEN tag(s, <<"%", "}">>, sl)
    ELSE tag(s, <<"#", "}">>, sl)

NumberedInput(line_number, sl) == [line_number |-> line_number, i |-> sl]

NumberedBlock(line_number, type, sl) ==
    [line_number |-> line_number, block |-> [type |-> type, bytes |-> sl]]

make_special_parser(s, left_sep, right_sep, constructor, ni) ==
    LET p == parse_special_with_separator(s, left_sep, right_sep, ni.i)
    IN  IF p.variant = "Ok"
        THEN Ok(NumberedInput(ni.line_number + CountNewlines(s, p.out), p.rest),
                NumberedBlock(ni.line_number, constructor, trim_ascii(s, p.out)))
        ELSE Err(p.variant, NumberedInput(ni.line_number, p.input), p.code)

\* The first index at which the loop of `plain` sees a separator, if any
SeparatorAt(s, sl) ==
    {j \in 0..(sl.len - 1) :
        any_separator(s, Slice(sl.off + j, sl.len - j)).variant = "Ok"}

\* Variant of plain whose split leaves the last byte out of the parsed slice
plain_short(s, ni) ==
    LET hits == SeparatorAt(s, ni.i)
        n    == IF hits = {} THEN ni.i.len ELSE Min(hits)
    IN  IF hits # {} /\ n = 0 THEN Err("Failure", ni, "Tag")
        ELSE IF hits = {} /\ ni.i.len = 0 THEN Err("Error", ni, "Fail")
        ELSE Ok(NumberedInput(ni.line_number + CountNewlines(s, Slice(ni.i.off, n)),
                              Slice(ni.i.off + n, ni.i.len - n)),
                NumberedInput(ni.line_number, Slice(ni.i.off, n - 1)))

\* Variant of plain that takes an opening token at index 0 for text
plain_opening_as_text(s, ni) ==
    LET all  == SeparatorAt(s, ni.i)
        open == \E sep \in {<<"{", "{">>, <<"{", "%">>, <<"{", "#">>} :
                    tag(s, sep, ni.i).variant = "Ok"
        hits == IF open THEN all \ {0} ELSE all
        n    == IF hits = {} THEN ni.i.len ELSE Min(hits)
    IN  IF hits # {} /\ n = 0 THEN Err("Failure", ni, "Tag")
        ELSE IF hits = {} /\ ni.i.len = 0 THEN Err("Error", ni, "Fail")
        ELSE Ok(NumberedInput(ni.line_number + CountNewlines(s, Slice(ni.i.off, n)),
                              Slice(ni.i.off + n, ni.i.len - n)),
                NumberedInput(ni.line_number, Slice(ni.i.off, n)))

\* Variant of plain whose failure reports the input after the separator
plain_failure_after_token(s, ni) ==
    LET hits == SeparatorAt(s, ni.i)
        n    == IF hits = {} THEN ni.i.len ELSE Min(hits)
    IN  IF hits # {} /\ n = 0
        THEN Err("Failure",
                 NumberedInput(ni.line_number, Slice(ni.i.off + 2, ni.i.len - 2)), "Tag")
        ELSE IF hits = {} /\ ni.i.len = 0 THEN Err("Error", ni, "Fail")
        ELSE Ok(NumberedInput(ni.line_number + CountNewlines(s, Slice(ni.i.off, n)),
                              Slice(ni.i.off + n, ni.i.len - n)),
                NumberedInput(ni.line_number, Slice(ni.i.off, n)))

\* Variant of plain that reports a separator at index 0 as Err::Error
plain_recoverable(s, ni) ==
    LET hits == SeparatorAt(s, ni.i)
        n    == IF hits = {} THEN ni.i.len ELSE Min(hits)
    IN  IF hits # {} /\ n = 0 THEN Err("Error", ni, "Tag")
        ELSE IF hits = {} /\ ni.i.len = 0 THEN Err("Error", ni, "Fail")
        ELSE Ok(NumberedInput(ni.line_number + CountNewlines(s, Slice(ni.i.off, n)),
                              Slice(ni.i.off + n, ni.i.len - n)),
                NumberedInput(ni.line_number, Slice(ni.i.off, n)))

\* Variant of plain without the check of index 0: an empty parsed slice
plain_empty_ok(s, ni) ==
    LET hits == SeparatorAt(s, ni.i)
        n    == IF hits = {} THEN ni.i.len ELSE Min(hits)
    IN  IF hits = {} /\ ni.i.len = 0 THEN Err("Error", ni, "Fail")
        ELSE Ok(NumberedInput(ni.line_number + CountNewlines(s, Slice(ni.i.off, n)),
                              Slice(ni.i.off + n, ni.i.len - n)),
                NumberedInput(ni.line_number, Slice(ni.i.off, n)))

plain(s, ni) ==
    LET hits == SeparatorAt(s, ni.i)
        n    == IF hits = {} THEN ni.i.len ELSE Min(hits)
    IN  IF hits # {} /\ n = 0 THEN Err("Failure", ni, "Tag")
        ELSE IF hits = {} /\ ni.i.len = 0 THEN Err("Error", ni, "Fail")
        ELSE Ok(NumberedInput(ni.line_number + CountNewlines(s, Slice(ni.i.off, n)),
                              Slice(ni.i.off + n, ni.i.len - n)),
                NumberedInput(ni.line_number, Slice(ni.i.off, n)))

plain_parser(s, ni) ==
    LET x == plain(s, ni)
    IN  IF x.variant = "Ok"
        THEN Ok(x.rest, NumberedBlock(x.out.line_number, "Plain", x.out.i))
        ELSE x

percent(s, ni) == make_special_parser(s, <<"{", "%">>, <<"%", "}">>, "TagPercent", ni)

curly(s, ni) == make_special_parser(s, <<"{", "{">>, <<"}", "}">>, "TagCurly", ni)

hash(s, ni) == make_special_parser(s, <<"{", "#">>, <<"#", "}">>, "TagHash", ni)

\* alt((percent, curly, hash, plain_parser)): the first alternative that does
\* not return Err::Error decides; if all do, the last error is returned.
block_parser(s, ni) ==
    IF      percent(s, ni).variant # "Error" THEN percent(s, ni)
    ELSE IF curly(s, ni).variant # "Error" THEN curly(s, ni)
    ELSE IF hash(s, ni).variant # "Error" THEN hash(s, ni)
    ELSE plain_parser(s, ni)

----------------------------------------------------------------------------
\* The state machine

NoResult == [variant |-> "None"]

NoTemplate == [some |-> FALSE, parsed |-> <<>>]

Init ==
    /\ input \in Inputs
    /\ pc = "many0"
    /\ i = NumberedInput(0, Slice(0, Len(input)))
    /\ acc = <<>>
    /\ starts = <<>>
    /\ result = NoResult
    /\ template = NoTemplate
    /\ k = 1
    /\ out = <<>>
    /\ ires = "None"

\* One iteration of the loop of nom::multi::many0 inside parse_template
Many0Step ==
    /\ pc = "many0"
    /\ LET r == block_parser(input, i)
       IN  IF r.variant = "Error"
           THEN /\ result' = Ok(i, acc)
                /\ pc' = "new"
                /\ UNCHANGED <<i, acc, starts>>
           ELSE IF r.variant = "Failure"
           THEN /\ result' = r
                /\ pc' = "new"
                /\ UNCHANGED <<i, acc, starts>>
           ELSE IF r.rest.i.len = i.i.len
           THEN /\ result' = Err("Error", i, "Many0")
                /\ pc' = "new"
                /\ UNCHANGED <<i, acc, starts>>
           ELSE /\ i' = r.rest
                /\ acc' = Append(acc, r.out)
                /\ starts' = Append(starts, i.i.off)
                /\ UNCHANGED <<result, pc>>
    /\ UNCHANGED <<input, template, k, out, ires>>

\* ParsedTemplate::new: parse_template(..).ok().filter(..).map(..)
New ==
    /\ pc = "new"
    /\ IF result.variant = "Ok" /\ result.rest.i.len = 0
       THEN /\ template' = [some |-> TRUE, parsed |-> result.out]
            /\ pc' = "instantiate"
       ELSE /\ template' = NoTemplate
            /\ pc' = "done"
    /\ UNCHANGED <<input, i, acc, starts, result, k, out, ires>>

\* The slice instantiate hands to write_all for one NumberedBlock
Written(ins) == ins.block.bytes

\* One iteration of the loop of instantiate.  write_all of an empty slice
\* returns Ok without calling the sink; otherwise the sink either takes all
\* the bytes or fails after taking a proper prefix of them.
InstantiateWrite ==
    /\ pc = "instantiate"
    /\ k <= Len(template.parsed)
    /\ LET x == Bytes(input, Written(template.parsed[k]))
       IN  \/ /\ out' = out \o x
              /\ k' = k + 1
              /\ UNCHANGED <<pc, ires>>
           \/ /\ x # <<>>
              /\ \E n \in 0..(Len(x) - 1) : out' = out \o SubSeq(x, 1, n)
              /\ ires' = "Err"
              /\ pc' = "done"
              /\ UNCHANGED k
    /\ UNCHANGED <<input, i, acc, starts, result, template>>

\* The loop of instantiate is exhausted: Ok(())
InstantiateReturn ==
    /\ pc = "instantiate"
    /\ k > Len(template.parsed)
    /\ ires' = "Ok"
    /\ pc' = "done"
    /\ UNCHANGED <<input, i, acc, starts, result, template, k, out>>

Next == Many0Step \/ New \/ InstantiateWrite \/ InstantiateReturn

Spec == Init /\ [][Next]_vars

TypeOK ==
    /\ pc \in {"many0", "new", "instantiate", "done"}
    /\ Len(acc) = Len(starts)
    /\ ires \in {"None", "Ok", "Err"}

----------------------------------------------------------------------------
\* Vocabulary of the properties, defined on the template bytes alone

OpeningTokens == {<<"{", "%">>, <<"{", "{">>, <<"{", "#">>}

ClosingTokens == {<<"%", "}">>, <<"}", "}">>, <<"#", "}">>}

LeftOf(type) ==
    CASE type = "TagPercent" -> <<"{", "%">>
      [] type = "TagCurly"   -> <<"{", "{">>
      [] type = "TagHash"    -> <<"{", "#">>

RightOf(type) ==
    CASE type = "TagPercent" -> <<"%", "}">>
      [] type = "TagCurly"   -> <<"}", "}">>
      [] type = "TagHash"    -> <<"#", "}">>

StartsWithAt(s, off, tok) ==
    /\ off + Len(tok) <= Len(s)
    /\ \A j \in 1..Len(tok) : s[off + j] = tok[j]

TokenAt(s, off) == \E tok \in OpeningTokens \cup ClosingTokens : StartsWithAt(s, off, tok)

ClosingAt(s, off) == \E tok \in ClosingTokens : StartsWithAt(s, off, tok)

Occurrences(s, tok, from) == {p \in from..(Len(s) - Len(tok)) : StartsWithAt(s, p, tok)}

UnterminatedAt(s, off) ==
    \E type \in {"TagPercent", "TagCurly", "TagHash"} :
        /\ StartsWithAt(s, off, LeftOf(type))
        /\ Occurrences(s, RightOf(type), off + 2) = {}

IsWs(b) == b \in {" ", "\t", "\n", "\f", "\r"}

RECURSIVE TrimStartSeq(_)
TrimStartSeq(q) == IF q # <<>> /\ IsWs(Head(q)) THEN TrimStartSeq(Tail(q)) ELSE q

RECURSIVE TrimEndSeq(_)
TrimEndSeq(q) ==
    IF q # <<>> /\ IsWs(q[Len(q)]) THEN TrimEndSeq(SubSeq(q, 1, Len(q) - 1)) ELSE q

TrimSeq(q) == TrimEndSeq(TrimStartSeq(q))

NewlinesBefore(s, off) == Cardinality({j \in 1..off : s[j] = "\n"})

IsTag(b) == b.block.type # "Plain"

\* The byte range [from, to) a span covers, recovered from the span alone:
\* a Plain span covers its slice; a Tag covers its body, the whitespace
\* around the body, and the two-byte tokens around that.
RawRange(s, b) ==
    LET sl == b.block.bytes
        e  == sl.off + sl.len
        lo == Min({p \in 0..sl.off : \A q \in p..(sl.off - 1) : IsWs(s[q + 1])})
        hi == Max({p \in e..Len(s) : \A q \in e..(p - 1) : IsWs(s[q + 1])})
    IN  IF IsTag(b) THEN [from |-> lo - 2, to |-> hi + 2]
        ELSE [from |-> sl.off, to |-> e]

RECURSIVE ConcatRanges(_, _, _)
ConcatRanges(s, P, n) ==
    IF n > Len(P) THEN <<>>
    ELSE SubSeq(s, RawRange(s, P[n]).from + 1, RawRange(s, P[n]).to)
             \o ConcatRanges(s, P, n + 1)

\* What the span scanned at starts[n] should contribute to the output
ExpectedBytes(n) ==
    LET p == starts[n]
        e == IF n < Len(starts) THEN starts[n + 1] ELSE Len(input)
    IN  IF IsTag(acc[n])
        THEN TrimSeq(SubSeq(input, p + 3,
                            Min(Occurrences(input, RightOf(acc[n].block.type), p + 2))))
        ELSE SubSeq(input, p + 1, e)

RECURSIVE ExpectedOutput(_)
ExpectedOutput(n) ==
    IF n > Len(acc) THEN <<>> ELSE ExpectedBytes(n) \o ExpectedOutput(n + 1)

HelloWorld ==
    <<"H", "e", "l", "l", "o", " ", "{", "{", " ", "w", "o", "r", "l", "d", " ", "}", "}">>

----------------------------------------------------------------------------
\* C1: when ParsedTemplate::new returns a value, the byte ranges of its
\* spans (a Plain span's bytes; a Tag's opening token, untrimmed body and
\* closing token) are contiguous, do not overlap, start at offset 0 and end
\* at the length of the input, and their concatenation is the input.
Coverage ==
    template.some =>
        LET P == template.parsed
            R(n) == RawRange(input, P[n])
        IN  /\ P = <<>> => input = <<>>
            /\ P # <<>> => R(1).from = 0 /\ R(Len(P)).to = Len(input)
            /\ \A n \in 1..Len(P) : R(n).from < R(n).to
            /\ \A n \in 1..(Len(P) - 1) : R(n).to = R(n + 1).from
            /\ \A n \in 1..Len(P) :
                   IsTag(P[n]) =>
                       /\ R(n).to - R(n).from >= 4
                       /\ StartsWithAt(input, R(n).from, LeftOf(P[n].block.type))
                       /\ StartsWithAt(input, R(n).to - 2, RightOf(P[n].block.type))
            /\ ConcatRanges(input, P, 1) = input

CoverageWitness ==
    /\ template.some
    /\ Len(template.parsed) >= 2
    /\ \E n \in 1..Len(template.parsed) :
           /\ IsTag(template.parsed[n])
           /\ RawRange(input, template.parsed[n]).to
                  - RawRange(input, template.parsed[n]).from
                  > template.parsed[n].block.bytes.len + 4

\* C2: the line_number of every span is k + 1, where k is the number of
\* newline bytes of the input before the first byte of the span.
LineNumberOneBased ==
    \A n \in 1..Len(acc) : acc[n].line_number = NewlinesBefore(input, starts[n]) + 1

\* C3: with a sink that does not fail, instantiate writes, in span order,
\* the bytes of each Plain span and the trimmed body of each Tag span, and
\* nothing else; "Hello {{ world }}" gives "Hello world".
InstantiateWritesBodies ==
    ires = "Ok" =>
        /\ out = ExpectedOutput(1)
        /\ input = HelloWorld => out = SubSeq(HelloWorld, 1, 6) \o SubSeq(HelloWorld, 10, 14)

InstantiateWitness ==
    /\ ires = "Ok"
    /\ \E n \in 1..Len(acc) : ~IsTag(acc[n])
    /\ \E n \in 1..Len(acc) :
           /\ IsTag(acc[n])
           /\ acc[n].block.bytes.len > 0
           /\ acc[n].block.bytes.off > starts[n] + 2

\* C4: when the scan stands at a closing token, the scanner step fails with
\* nom's Failure at that position, pushes no span, ends the scan, and
\* ParsedTemplate::new returns None.
StrayClosingFails ==
    [][ /\ (pc = "many0" /\ ClosingAt(input, i.i.off)) =>
               /\ pc' = "new"
               /\ result'.variant = "Failure"
               /\ result'.input.i.off = i.i.off
               /\ acc' = acc
        /\ (pc = "new" /\ ClosingAt(input, i.i.off)) =>
               /\ pc' = "done"
               /\ ~template'.some ]_vars

StrayClosingWitness ==
    /\ pc = "done"
    /\ ClosingAt(input, i.i.off)
    /\ result.variant = "Failure"
    /\ ~template.some
    /\ Len(acc) >= 1
    /\ i.i.off + 2 < Len(input)

\* C5: when the scan stands at an opening token whose closing token does
\* not occur after it, the parse fails, no span is pushed for the opening
\* token, and ParsedTemplate::new returns None.
UnterminatedTagFails ==
    [][ /\ (pc = "many0" /\ UnterminatedAt(input, i.i.off)) =>
               /\ pc' = "new"
               /\ result'.variant # "Ok"
               /\ acc' = acc
        /\ (pc = "new" /\ UnterminatedAt(input, i.i.off)) =>
               /\ pc' = "done"
               /\ ~template'.some ]_vars

UnterminatedTagWitness ==
    /\ pc = "done"
    /\ UnterminatedAt(input, i.i.off)
    /\ ~template.some
    /\ Len(acc) >= 1
    /\ i.i.off + 2 < Len(input)
    /\ ~TokenAt(input, i.i.off + 2)

\* C6: the body of every Tag span is the bytes strictly between the opening
\* token at the scan position and the first occurrence after it of the
\* closing token of the same kind, trimmed of ASCII whitespace at both ends;
\* tokens inside that region belong to the body.
TagBodyIsFirstMatch ==
    \A n \in 1..Len(acc) :
        IsTag(acc[n]) =>
            LET p    == starts[n]
                occ  == Occurrences(input, RightOf(acc[n].block.type), p + 2)
                body == Bytes(input, acc[n].block.bytes)
            IN  /\ StartsWithAt(input, p, LeftOf(acc[n].block.type))
                /\ occ # {}
                /\ body = TrimSeq(SubSeq(input, p + 3, Min(occ)))
                /\ acc[n].block.bytes.off >= p + 2
                /\ acc[n].block.bytes.off + acc[n].block.bytes.len <= Min(occ)
                /\ body # <<>> => ~IsWs(body[1]) /\ ~IsWs(body[Len(body)])

TagBodyWitness ==
    \E n \in 1..Len(acc) :
        /\ IsTag(acc[n])
        /\ \E p \in acc[n].block.bytes.off
                      ..(acc[n].block.bytes.off + acc[n].block.bytes.len - 2) :
               TokenAt(input, p)
        /\ acc[n].block.bytes.off > starts[n] + 2

PlainSpansMaximal ==
    \A n \in 1..Len(acc) :
        ~IsTag(acc[n]) =>
            LET sl == acc[n].block.bytes
            IN  /\ sl.len >= 1
                /\ sl.off = starts[n]
                /\ \A p \in sl.off..(sl.off + sl.len - 1) : ~TokenAt(input, p)
                /\ sl.off + sl.len = Len(input) \/ TokenAt(input, sl.off + sl.len)
                /\ n < Len(acc) => IsTag(acc[n + 1])

PlainSpansWitness ==
    \E n \in 1..Len(acc) :
        /\ ~IsTag(acc[n])
        /\ acc[n].block.bytes.len >= 2
        /\ \E p \in 1..acc[n].block.bytes.len :
               input[acc[n].block.bytes.off + p] \in {"{", "}", "%", "#"}
        /\ TokenAt(input, acc[n].block.bytes.off + acc[n].block.bytes.len)

\* C9: a success of parse_template leaves no input, ParsedTemplate::new
\* returns a value exactly when parse_template succeeded, and the empty
\* input gives a template without spans.
SuccessConsumesAll ==
    /\ result.variant = "Ok" =>
           /\ result.rest.i.len = 0
           /\ result.rest.i.off = Len(input)
    /\ pc \in {"instantiate", "done"} =>
           /\ template.some <=> result.variant = "Ok"
           /\ template.some => template.parsed = result.out
           /\ input = <<>> => template.some /\ template.parsed = <<>>

SuccessWitness ==
    /\ pc = "done"
    /\ template.some
    /\ Len(template.parsed) >= 2
    /\ result.variant = "Ok"

\* C10: every scanner step that succeeds consumes input, a Tag step at
\* least four bytes and a Plain step at least one, so there are at most as
\* many steps as input bytes, and the repetition never ends because a step
\* succeeded without consuming.
StepsConsume ==
    [][ /\ (pc = "many0" /\ pc' = "many0") =>
               /\ Len(acc') = Len(acc) + 1
               /\ Len(acc') <= Len(input)
               /\ i'.i.off + i'.i.len = Len(input)
               /\ i'.i.off >= i.i.off
                      + (IF IsTag(acc'[Len(acc')]) THEN 4 ELSE 1)
        /\ (pc = "many0" /\ pc' # "many0") =>
               /\ pc' = "new"
               /\ result'.variant \in {"Ok", "Failure"} ]_vars

StepsConsumeWitness ==
    /\ pc = "done"
    /\ Len(acc) >= 2
    /\ \E n \in 1..Len(acc) : IsTag(acc[n])
    /\ \E n \in 1..Len(acc) : ~IsTag(acc[n])

====
